---- MODULE Spec2Model ----
(***************************************************************************)
(* Model of py_style/models.py: Theme, Console.__align_text, ProgressBar   *)
(* and Table.  Each class gets its own specification (SpecTheme, SpecAlign, *)
(* SpecBar, SpecTable); the variables of the other classes are held fixed.  *)
(* Strings that are only compared are TLA+ strings; strings whose           *)
(* characters matter (alignment) are sequences of one-character strings.    *)
(* Python exceptions are recorded in a "raised" field / pc value and leave  *)
(* the state exactly as the code leaves it at the raising statement.        *)
(***************************************************************************)
EXTENDS Integers, Sequences, FiniteSets, TLC

VARIABLES
    info, warning, error, success, styles, themeCall,   \* Theme
    text, alignment, width, aligned, alignPc,           \* Console.__align_text
    values, barStyle, barStep, emitted, barPc,          \* ProgressBar
    columns, rows, table, tableCall                     \* Table

themeVars == <<info, warning, error, success, styles, themeCall>>
alignVars == <<text, alignment, width, aligned, alignPc>>
barVars   == <<values, barStyle, barStep, emitted, barPc>>
tableVars == <<columns, rows, table, tableCall>>
vars == <<themeVars, alignVars, barVars, tableVars>>

(***************************************************************************)
(* Theme                                                                   *)
(***************************************************************************)
\* Style codes of the palette (opaque text, from .constants).
Colors == {"FG_CYAN", "FG_YELLOW", "FG_RED", "FG_GREEN"}
DEFAULT == "DEFAULT"

\* dict item assignment  d[k] = v
Put(d, k, v) == [x \in (DOMAIN d) \cup {k} |-> IF x = k THEN v ELSE d[x]]

EmptyDict == [x \in {} |-> ""]

\* **styles keyword arguments handed to the constructor
ExtraStyles == {EmptyDict, [bold |-> "BOLD"], [bold |-> "BOLD", default |-> "DIM"]}

\* Theme.__construct on mapping st with the fields (i, w, s, e)
construct(st, i, w, s, e) ==
    Put(Put(Put(Put(Put(st, "info", i), "warning", w), "success", s), "error", e),
        "default", DEFAULT)

\* Theme.get_style: KeyError when the target is not a key of the mapping
Registered(target) == target \in DOMAIN styles
get_style(target) == styles[target]

\* themeCall: op/color are the latest privileged setter call (info, warning,
\* error, success; "init" before any), raised tells that a "styles"
\* assignment was attempted after it and raised TypeError.
NoCall == [op |-> "init", color |-> "", raised |-> FALSE]

\* the read-only properties info, warning, error, success
Property(k) ==
    CASE k = "info" -> info
      [] k = "warning" -> warning
      [] k = "error" -> error
      [] k = "success" -> success

\* Theme.__init__
ThemeInit(i, w, e, s, extra) ==
    /\ info = i /\ warning = w /\ error = e /\ success = s
    /\ styles = construct(extra, i, w, s, e)
    /\ themeCall = NoCall

\* DEFAULT_THEME (palette abridged to the keys the other classes look up)
DefaultTheme == ThemeInit("FG_CYAN", "FG_YELLOW", "FG_RED", "FG_GREEN", [bold |-> "BOLD"])

info_setter_nosync(color) ==
    /\ info' = color
    /\ themeCall' = [op |-> "info", color |-> color, raised |-> FALSE]
    /\ UNCHANGED <<warning, error, success, styles>>

info_setter(color) ==
    /\ info' = color
    /\ styles' = construct(styles, color, warning, success, error)
    /\ themeCall' = [op |-> "info", color |-> color, raised |-> FALSE]
    /\ UNCHANGED <<warning, error, success>>

warning_setter_nosync(color) ==
    /\ warning' = color
    /\ themeCall' = [op |-> "warning", color |-> color, raised |-> FALSE]
    /\ UNCHANGED <<info, error, success, styles>>

warning_setter(color) ==
    /\ warning' = color
    /\ styles' = construct(styles, info, color, success, error)
    /\ themeCall' = [op |-> "warning", color |-> color, raised |-> FALSE]
    /\ UNCHANGED <<info, error, success>>

error_setter(color) ==
    /\ error' = color
    /\ styles' = construct(styles, info, warning, success, color)
    /\ themeCall' = [op |-> "error", color |-> color, raised |-> FALSE]
    /\ UNCHANGED <<info, warning, success>>

success_setter_sync(color) ==
    /\ success' = color
    /\ styles' = construct(styles, info, warning, color, error)
    /\ themeCall' = [op |-> "success", color |-> color, raised |-> FALSE]
    /\ UNCHANGED <<info, warning, error>>

success_setter(color) ==
    /\ success' = color
    /\ themeCall' = [op |-> "success", color |-> color, raised |-> FALSE]
    /\ UNCHANGED <<info, warning, error, styles>>

\* "theme.styles = x": the property machinery calls styles(self, x), but the
\* function is declared styles(self, **objects), so the call raises TypeError
\* before the body runs; nothing is merged.
styles_setter(objects) ==
    /\ themeCall' = [themeCall EXCEPT !.raised = TRUE]
    /\ UNCHANGED <<info, warning, error, success, styles>>

ThemeNext ==
    \/ \E color \in Colors : info_setter(color)
    \/ \E color \in Colors : warning_setter(color)
    \/ \E color \in Colors : error_setter(color)
    \/ \E color \in Colors : success_setter(color)
    \/ \E objects \in ExtraStyles : styles_setter(objects)

(***************************************************************************)
(* Console.__align_text                                                    *)
(***************************************************************************)
CENTER == "center"
RIGHT == "right"
LEFT == "left"
Alignments == {CENTER, RIGHT, LEFT, "justify"}

MaxLen == 3        \* longest text tried
MaxWidth == 5      \* widest terminal tried
Chars == {" ", "a"}
Texts == UNION {[1..n -> Chars] : n \in 0..MaxLen}

\* " " * n  (the empty string when n <= 0)
Spaces(n) == [i \in 1..n |-> " "]

RECURSIVE lstrip(_)
\* str.lstrip(" ")
lstrip(s) == IF s # <<>> /\ Head(s) = " " THEN lstrip(Tail(s)) ELSE s

RECURSIVE rstrip(_)
\* str.rstrip(" ")
rstrip(s) ==
    IF s # <<>> /\ s[Len(s)] = " " THEN rstrip(SubSeq(s, 1, Len(s) - 1)) ELSE s

align_center_even(t, w) ==
    LET padding == (w - Len(t)) \div 2
    IN  Spaces(padding) \o t \o Spaces(padding)

\* alignment == CENTER branch
align_center(t, w) ==
    LET padding == (w - Len(t)) \div 2
    IN  Spaces(padding) \o t \o Spaces(w - Len(t) - padding)

align_right_lstrip(t, w) == lstrip(Spaces(w - Len(t)) \o t)

\* alignment == RIGHT branch
align_right(t, w) == rstrip(Spaces(w - Len(t)) \o t)

\* alignment == LEFT branch
align_left(t, w) == lstrip(t \o Spaces(w - Len(t)))

\* Console.__align_text: width is what get_terminal_size().columns returned
align_text ==
    /\ alignPc = "call"
    /\ IF alignment = CENTER THEN aligned' = align_center(text, width) /\ alignPc' = "done"
       ELSE IF alignment = RIGHT THEN aligned' = align_right(text, width) /\ alignPc' = "done"
       ELSE IF alignment = LEFT THEN aligned' = align_left(text, width) /\ alignPc' = "done"
       ELSE aligned' = aligned /\ alignPc' = "ValueError"
    /\ UNCHANGED <<text, alignment, width>>

AlignInit ==
    /\ text \in Texts
    /\ alignment \in Alignments
    /\ width \in 0..MaxWidth
    /\ aligned = <<>>
    /\ alignPc = "call"

AlignIdle ==
    /\ text = <<>> /\ alignment = LEFT /\ width = 0 /\ aligned = <<>> /\ alignPc = "idle"

(***************************************************************************)
(* ProgressBar                                                             *)
(***************************************************************************)
MaxValues == 3     \* largest step count tried
StyleNames == {"default", "bold", "bogus"}

\* ProgressBar.__init__ (symbol and delay do not influence control flow)
BarInit ==
    /\ values \in 0..MaxValues
    /\ barStyle = "default"
    /\ barStep = 0
    /\ emitted = <<>>
    /\ barPc = "idle"

BarIdle ==
    /\ values = 0 /\ barStyle = "default" /\ barStep = 0 /\ emitted = <<>> /\ barPc = "idle"

\* values.setter
values_setter(new) ==
    /\ barPc # "loop"
    /\ values' = new
    /\ UNCHANGED <<barStyle, barStep, emitted, barPc>>

\* run(style, del_self): entry; range(self.__values) is evaluated here
run_call(style) ==
    /\ barPc # "loop"
    /\ barStyle' = style
    /\ barStep' = 0
    /\ emitted' = <<>>
    /\ barPc' = "loop"
    /\ UNCHANGED values

\* one evaluation of the for statement: either the next iteration
\* (get_style, then print of the styled symbol, then sleep) or the exit of
\* the loop; "del self" only unbinds the local name.
run_step ==
    /\ barPc = "loop"
    /\ IF barStep < values
       THEN IF Registered(barStyle)
            THEN /\ emitted' = Append(emitted, get_style(barStyle))
                 /\ barStep' = barStep + 1
                 /\ barPc' = "loop"
            ELSE barPc' = "KeyError" /\ UNCHANGED <<barStep, emitted>>
       ELSE barPc' = "returned" /\ UNCHANGED <<barStep, emitted>>
    /\ UNCHANGED <<values, barStyle>>

BarNext ==
    \/ \E new \in 0..MaxValues : values_setter(new)
    \/ \E style \in StyleNames : run_call(style)
    \/ run_step

(***************************************************************************)
(* Table                                                                   *)
(***************************************************************************)
MaxRows == 2       \* add_row is tried while fewer rows are stored
MaxColumns == 2    \* add_column is tried while columns is smaller
MaxArgs == 3       \* most values handed to add_row
MaxIndex == 2      \* indexes tried are -MaxIndex..MaxIndex
MaxDeficit == 1    \* del_column is tried while columns > -MaxDeficit

None == "None"
\* values callers store (the empty string is add_column's default placeholder)
Values == {"a", ""}
Placeholders == {""}
Indexes == (0 - MaxIndex)..MaxIndex
Objects == UNION {[1..n -> Values] : n \in 0..MaxArgs}

\* Python list indexing: i is valid for a list of length n iff -n <= i < n
PyValid(i, n) == (0 - n) <= i /\ i < n
\* the 1-based position a valid Python index designates
PyPos(i, n) == IF i < 0 THEN i + n + 1 ELSE i + 1
\* del s[p] for a 1-based position p
DelAt(s, p) == SubSeq(s, 1, p - 1) \o SubSeq(s, p + 1, Len(s))

\* the latest call: operation, add_row's values, del_row/del_column's index,
\* add_column's placeholder, and whether it raised
NoTableCall ==
    [op |-> "init", objects |-> <<>>, index |-> 0, value |-> "", raised |-> FALSE]

\* Table.__init__
TableInit(n) ==
    /\ columns = n
    /\ rows = 0
    /\ table = <<>>
    /\ tableCall = NoTableCall

RECURSIVE Pad(_, _)
\* while len(objects) < self.__columns: objects.append(None)
Pad(objects, c) == IF Len(objects) < c THEN Pad(Append(objects, None), c) ELSE objects

RECURSIVE Truncate(_, _)
\* while len(objects) > self.__columns: objects.pop()
\* (pop from an empty list raises IndexError)
Truncate(objects, c) ==
    IF Len(objects) > c
    THEN IF objects = <<>>
         THEN [raised |-> TRUE, objects |-> objects]
         ELSE Truncate(SubSeq(objects, 1, Len(objects) - 1), c)
    ELSE [raised |-> FALSE, objects |-> objects]

add_row_nopad(objects) ==
    LET r == Truncate(objects, columns)
    IN  /\ Len(table) < MaxRows
        /\ tableCall' = [NoTableCall EXCEPT !.op = "add_row", !.objects = objects,
                                            !.raised = r.raised]
        /\ IF r.raised
           THEN UNCHANGED <<table, rows, columns>>
           ELSE /\ table' = Append(table, r.objects)
                /\ rows' = rows + 1
                /\ UNCHANGED columns

add_row(objects) ==
    LET r == Truncate(Pad(objects, columns), columns)
    IN  /\ Len(table) < MaxRows
        /\ tableCall' = [NoTableCall EXCEPT !.op = "add_row", !.objects = objects,
                                            !.raised = r.raised]
        /\ IF r.raised
           THEN UNCHANGED <<table, rows, columns>>
           ELSE /\ table' = Append(table, r.objects)
                /\ rows' = rows + 1
                /\ UNCHANGED columns

del_row(index) ==
    /\ tableCall' = [NoTableCall EXCEPT !.op = "del_row", !.index = index,
                                        !.raised = ~PyValid(index, Len(table))]
    /\ IF PyValid(index, Len(table))
       THEN /\ table' = DelAt(table, PyPos(index, Len(table)))
            /\ rows' = rows - 1
            /\ UNCHANGED columns
       ELSE UNCHANGED <<table, rows, columns>>

RECURSIVE DelColumnRows(_, _, _)
\* for row in self.__table: del row[index]   -- rows k.. still to visit; the
\* first IndexError stops the loop and keeps what was already deleted
DelColumnRows(tbl, index, k) ==
    IF k > Len(tbl)
    THEN [raised |-> FALSE, table |-> tbl]
    ELSE IF PyValid(index, Len(tbl[k]))
         THEN DelColumnRows([tbl EXCEPT ![k] = DelAt(tbl[k], PyPos(index, Len(tbl[k])))],
                            index, k + 1)
         ELSE [raised |-> TRUE, table |-> tbl]

del_column_first(index) ==
    LET r == DelColumnRows(table, 0, 1)
    IN  /\ columns > 0 - MaxDeficit
        /\ tableCall' = [NoTableCall EXCEPT !.op = "del_column", !.index = index,
                                            !.raised = r.raised]
        /\ table' = r.table
        /\ columns' = IF r.raised THEN columns ELSE columns - 1
        /\ UNCHANGED rows

del_column(index) ==
    LET r == DelColumnRows(table, index, 1)
    IN  /\ columns > 0 - MaxDeficit
        /\ tableCall' = [NoTableCall EXCEPT !.op = "del_column", !.index = index,
                                            !.raised = r.raised]
        /\ table' = r.table
        /\ columns' = IF r.raised THEN columns ELSE columns - 1
        /\ UNCHANGED rows

add_column_nocount(placeholder) ==
    /\ columns < MaxColumns
    /\ tableCall' = [NoTableCall EXCEPT !.op = "add_column", !.value = placeholder]
    /\ table' = [k \in 1..Len(table) |-> Append(table[k], placeholder)]
    /\ UNCHANGED <<rows, columns>>

add_column(placeholder) ==
    /\ columns < MaxColumns
    /\ tableCall' = [NoTableCall EXCEPT !.op = "add_column", !.value = placeholder]
    /\ table' = [k \in 1..Len(table) |-> Append(table[k], placeholder)]
    /\ columns' = columns + 1
    /\ UNCHANGED rows

\* self.__table[row_index][column_index] = info
set_column(value, row_index, column_index) ==
    LET okRow == PyValid(row_index, Len(table))
        r == PyPos(row_index, Len(table))
        ok == okRow /\ PyValid(column_index, Len(table[r]))
    IN  /\ tableCall' = [NoTableCall EXCEPT !.op = "set_column", !.raised = ~ok]
        /\ IF ok
           THEN table' = [table EXCEPT ![r][PyPos(column_index, Len(table[r]))] = value]
           ELSE UNCHANGED table
        /\ UNCHANGED <<rows, columns>>

TableNext ==
    \/ \E objects \in Objects : add_row(objects)
    \/ \E index \in Indexes : del_row(index)
    \/ \E index \in Indexes : del_column(index)
    \/ \E placeholder \in Placeholders : add_column(placeholder)
    \/ \E value \in Values, row_index \in Indexes, column_index \in Indexes :
           set_column(value, row_index, column_index)

TableIdle == TableInit(0)

(***************************************************************************)
(* Specifications                                                          *)
(***************************************************************************)
\* Theme: any constructor call, then any sequence of setter calls
SpecThemeInit ==
    /\ \E i \in Colors, w \in Colors, e \in Colors, s \in Colors, extra \in ExtraStyles :
           ThemeInit(i, w, e, s, extra)
    /\ AlignIdle /\ BarIdle /\ TableIdle
SpecThemeNext == ThemeNext /\ UNCHANGED <<alignVars, barVars, tableVars>>
SpecTheme == SpecThemeInit /\ [][SpecThemeNext]_vars

\* Console.__align_text on any text, alignment token and terminal width
SpecAlignInit == AlignInit /\ DefaultTheme /\ BarIdle /\ TableIdle
SpecAlignNext == align_text /\ UNCHANGED <<themeVars, barVars, tableVars>>
SpecAlign == SpecAlignInit /\ [][SpecAlignNext]_vars

\* ProgressBar over a theme built by the constructor
SpecBarInit ==
    /\ BarInit
    /\ \E extra \in ExtraStyles : ThemeInit("FG_CYAN", "FG_YELLOW", "FG_RED", "FG_GREEN", extra)
    /\ AlignIdle /\ TableIdle
SpecBarNext == BarNext /\ UNCHANGED <<themeVars, alignVars, tableVars>>
SpecBar == SpecBarInit /\ [][SpecBarNext]_vars

\* Table(n), n >= 0, then any sequence of row/column operations
SpecTableInit ==
    /\ \E n \in 0..MaxColumns : TableInit(n)
    /\ DefaultTheme /\ AlignIdle /\ BarIdle
SpecTableNext == TableNext /\ UNCHANGED <<themeVars, alignVars, barVars>>
SpecTable == SpecTableInit /\ [][SpecTableNext]_vars

(***************************************************************************)
(* Properties                                                              *)
(***************************************************************************)
Min(a, b) == IF a < b THEN a ELSE b

\* C1 (SpecTable): every stored row has exactly `columns` cells and the
\* rows property equals the number of stored rows, after any sequence of
\* add_row, del_row, add_column, del_column and set_column calls, whether
\* they succeeded or raised.
C1_RowsMatchColumns ==
    /\ \A k \in 1..Len(table) : Len(table[k]) = columns
    /\ rows = Len(table)

\* a column was deleted from a full table that still has columns left
C1_Witness ==
    /\ tableCall.op = "del_column" /\ ~tableCall.raised
    /\ Len(table) = MaxRows /\ columns >= 1

\* C2 (SpecTheme): for k in {info, warning, error}, get_style(k) equals the
\* property k, which is the value the latest call of k's setter assigned.
C2_PrivilegedInSync ==
    \A k \in {"info", "warning", "error"} :
        /\ Registered(k)
        /\ get_style(k) = Property(k)
        /\ themeCall.op = k => get_style(k) = themeCall.color

\* the info setter has assigned FG_GREEN and a later styles assignment raised
C2_Witness ==
    /\ themeCall.op = "info" /\ themeCall.color = "FG_GREEN"
    /\ info = "FG_GREEN"
    /\ get_style("info") = "FG_GREEN"
    /\ themeCall.raised

\* C3 (SpecTheme): a success setter step sets the success property to the
\* assigned value and leaves every entry of the style mapping as it was.
C3_SuccessSetterFrame ==
    [][themeCall'.op = "success" =>
          /\ success' = themeCall'.color
          /\ styles' = styles
          /\ get_style("success")' = get_style("success")]_vars

\* the success setter has acted and the mapping still holds the old value
C3_Witness ==
    /\ themeCall.op = "success"
    /\ success = themeCall.color
    /\ get_style("success") # success

\* C4 (SpecTable): with columns = c >= 0, add_row with k values appends one
\* row of length c whose first min(k, c) cells are the first supplied values
\* in order and whose other cells are None; rows grows by one, columns and
\* the earlier rows are unchanged.
C4_AddRow ==
    [][(tableCall'.op = "add_row" /\ columns >= 0) =>
          LET objs == tableCall'.objects
              m == Min(Len(objs), columns)
              n == Len(table)
          IN  /\ ~tableCall'.raised
              /\ Len(table') = n + 1
              /\ rows' = rows + 1
              /\ columns' = columns
              /\ \A k \in 1..n : table'[k] = table[k]
              /\ Len(table'[n + 1]) = columns
              /\ \A j \in 1..columns :
                     table'[n + 1][j] = IF j <= m THEN objs[j] ELSE None]_vars

\* a second row was added from fewer values than columns: it got padded
C4_Witness ==
    /\ tableCall.op = "add_row" /\ ~tableCall.raised
    /\ Len(table) = 2
    /\ Len(tableCall.objects) = 1 /\ columns = 2
    /\ table[2][2] = None

\* C5 (SpecTable): for 0 <= i < number of rows, del_row(i) takes one off
\* rows, keeps columns, keeps rows before i and moves later rows down by
\* one; for 0 <= i < columns, del_column(i) takes one off columns, keeps
\* rows, and in every row keeps cells before i and moves later cells down.
C5_DeleteShifts ==
    [][LET i == tableCall'.index
           n == Len(table)
       IN  /\ (tableCall'.op = "del_row" /\ 0 <= i /\ i < n) =>
                 /\ ~tableCall'.raised
                 /\ rows' = rows - 1
                 /\ columns' = columns
                 /\ Len(table') = n - 1
                 /\ \A k \in 1..(n - 1) :
                        table'[k] = IF k <= i THEN table[k] ELSE table[k + 1]
           /\ (tableCall'.op = "del_column" /\ 0 <= i /\ i < columns) =>
                 /\ ~tableCall'.raised
                 /\ columns' = columns - 1
                 /\ rows' = rows
                 /\ Len(table') = n
                 /\ \A k \in 1..n :
                        /\ Len(table'[k]) = columns - 1
                        /\ \A j \in 1..(columns - 1) :
                               table'[k][j] =
                                   IF j <= i THEN table[k][j] ELSE table[k][j + 1]]_vars

\* the first column was deleted and a different cell moved into its place
C5_Witness ==
    /\ tableCall.op = "del_column" /\ ~tableCall.raised /\ tableCall.index = 0
    /\ columns = 1 /\ Len(table) = 2
    /\ table[1][1] = None /\ table[2][1] = "a"

\* C6 (SpecTable): del_row / del_column with an index outside the current
\* row / column range raises and leaves rows, columns and every cell
\* unchanged, in every table state including one without rows.
C6_OutOfRangeRaises ==
    [][/\ (tableCall'.op = "del_row" /\ ~PyValid(tableCall'.index, Len(table))) =>
              tableCall'.raised /\ UNCHANGED <<table, rows, columns>>
       /\ (tableCall'.op = "del_column" /\ ~PyValid(tableCall'.index, columns)) =>
              tableCall'.raised /\ UNCHANGED <<table, rows, columns>>]_vars

\* C7 (SpecAlign): for text of length L < W, center alignment returns W
\* characters: (W-L) div 2 spaces, the text, then spaces up to W.
C7_Center ==
    (alignPc = "done" /\ alignment = CENTER /\ Len(text) < width) =>
        LET off == (width - Len(text)) \div 2
        IN  /\ Len(aligned) = width
            /\ \A p \in 1..width :
                   aligned[p] = IF off < p /\ p <= off + Len(text)
                                THEN text[p - off] ELSE " "

\* centred text with an odd number of spare columns
C7_Witness ==
    /\ alignPc = "done" /\ alignment = CENTER
    /\ Len(text) = 2 /\ width = 5
    /\ aligned = <<" ", text[1], text[2], " ", " ">>

\* the string of width w holding t at offset off, spaces elsewhere
Placed(t, off, w) ==
    [p \in 1..w |-> IF off < p /\ p <= off + Len(t) THEN t[p - off] ELSE " "]

\* C8 as stated (SpecAlign): for text of length L < W that does not begin
\* with a space, left and right alignment both return W characters (text
\* then spaces / spaces then text).
C8_AsStated ==
    (alignPc = "done" /\ Len(text) < width /\ (text = <<>> \/ text[1] # " ")) =>
        /\ alignment = LEFT => aligned = Placed(text, 0, width)
        /\ alignment = RIGHT => aligned = Placed(text, width - Len(text), width)

\* C8 amended (SpecAlign): for non-empty text of length L < W, left
\* alignment returns the text followed by W-L spaces exactly when the text
\* does not begin with a space, and right alignment returns W-L spaces
\* followed by the text exactly when the text does not end with a space;
\* otherwise the result is shorter than W.  For empty text both return the
\* empty string.
C8_Amended ==
    /\ (alignPc = "done" /\ text = <<>> /\ alignment \in {LEFT, RIGHT}) => aligned = <<>>
    /\ (alignPc = "done" /\ 0 < Len(text) /\ Len(text) < width) =>
          /\ alignment = LEFT =>
                IF text[1] # " "
                THEN aligned = Placed(text, 0, width)
                ELSE Len(aligned) < width
          /\ alignment = RIGHT =>
                IF text[Len(text)] # " "
                THEN aligned = Placed(text, width - Len(text), width)
                ELSE Len(aligned) < width

\* right-aligned text that begins with a space keeps its full width
C8_Witness ==
    /\ alignPc = "done" /\ alignment = RIGHT
    /\ text = <<" ", "a">> /\ width = 4
    /\ aligned = <<" ", " ", " ", "a">>

\* C9 (SpecBar): run with an unregistered style ends in a lookup error with
\* nothing emitted, for every step count including 0; with a registered
\* style it emits exactly `values` styled symbols.
C9_RunResolvesFirst ==
    /\ barPc = "returned" =>
          /\ Registered(barStyle)
          /\ Len(emitted) = values
          /\ \A p \in 1..values : emitted[p] = get_style(barStyle)
    /\ barPc = "KeyError" => ~Registered(barStyle) /\ emitted = <<>>
    /\ (barPc = "loop" /\ ~Registered(barStyle)) => emitted = <<>>

\* C10 (SpecTheme): when the latest privileged setter call was for info,
\* warning or error, get_style("success") equals the success property; the
\* two differ only while the success setter is the latest one called.
C10_SuccessResync ==
    /\ themeCall.op \in {"info", "warning", "error"} => get_style("success") = success
    /\ get_style("success") # success => themeCall.op = "success"

\* a stale success entry was repaired by a later warning setter call
C10_Witness ==
    /\ themeCall.op = "warning"
    /\ success = "FG_RED"
    /\ get_style("success") = "FG_RED"
    /\ get_style("warning") = themeCall.color

====
